---------------------------- MODULE Spec2Model ----------------------------
(***************************************************************************)
(* Model of scripts/netplan_converter.py: the netplan-to-ifupdown          *)
(* converter (NetplanConverter, write_output_files, main).                 *)
(*                                                                         *)
(* Python values are modelled as follows.                                  *)
(*   str            a TLA+ string (Len, \o and SubSeq act on characters)   *)
(*   dict (config)  a function from key strings to values; `k in d` is     *)
(*                  k \in DOMAIN d                                         *)
(*   dict iterated  a sequence of <<key, value>> pairs with distinct keys, *)
(*   in order       in insertion order (ethernets, wifis, access-points,   *)
(*                  wpa_configs)                                           *)
(*   list           a sequence                                             *)
(*   int used in    a sequence of bits, most significant first (Python     *)
(*   shifts         integers are unbounded; 0xffffffff does not fit the    *)
(*                  model checker's integers)                              *)
(***************************************************************************)
EXTENDS Integers, Sequences, FiniteSets, TLC

VARIABLES
    args,                \* parsed command line: input_file, output_dir, dry_run
    euid,                \* os.geteuid() of the process
    umask,               \* permission bits the process's umask clears
    config,              \* what load_netplan_config returns for the input file
    pc,                  \* position of main()
    interfaces_content,  \* NetplanConverter.interfaces_content
    wpa_configs,         \* NetplanConverter.wpa_configs
    interfaces_text,     \* first component of convert()'s return value
    dirs,                \* directories that exist
    disk,                \* files that exist: path -> [content, perm]
    stdout,              \* what has been printed to standard output
    widx,                \* write_output_files: index in wpa_configs.items()
    exit_status          \* process exit status, -1 while running

vars == <<args, euid, umask, config, pc, interfaces_content, wpa_configs,
          interfaces_text, dirs, disk, stdout, widx, exit_status>>

-----------------------------------------------------------------------------
(* Python built-ins used by the converter *)

\* dict.get(k, default)
Get(d, k, default) == IF k \in DOMAIN d THEN d[k] ELSE default

\* k in d, for a dict kept as a sequence of <<key, value>> pairs
HasKey(m, k) == \E i \in 1..Len(m) : m[i][1] = k

\* d[k] = v: replaces the value of an existing key in place, appends a new key
DictSet(m, k, v) ==
    IF HasKey(m, k)
    THEN [i \in 1..Len(m) |-> IF m[i][1] = k THEN <<k, v>> ELSE m[i]]
    ELSE Append(m, <<k, v>>)

\* sep.join(parts)
RECURSIVE Join(_, _)
Join(sep, parts) ==
    IF Len(parts) = 0 THEN ""
    ELSE IF Len(parts) = 1 THEN parts[1]
    ELSE parts[1] \o sep \o Join(sep, Tail(parts))

\* c in s, for a one-character c
InStr(c, s) == \E i \in 1..Len(s) : SubSeq(s, i, i) = c

\* s.split(sep), for a one-character sep: the pieces of s between the
\* occurrences of sep, empty pieces included.
Split(s, sep) ==
    LET at == { i \in 1..Len(s) : SubSeq(s, i, i) = sep }
        nth(k) == CHOOSE i \in at : Cardinality({ j \in at : j < i }) = k - 1
    IN  [ k \in 1..(Cardinality(at) + 1) |->
            SubSeq(s, IF k = 1 THEN 1 ELSE nth(k - 1) + 1,
                      IF k = Cardinality(at) + 1 THEN Len(s) ELSE nth(k) - 1) ]

DecimalDigits == "0123456789"

\* str(n) for an int n >= 0
RECURSIVE IntToStr(_)
IntToStr(n) ==
    IF n < 10 THEN SubSeq(DecimalDigits, n + 1, n + 1)
    ELSE IntToStr(n \div 10) \o SubSeq(DecimalDigits, (n % 10) + 1, (n % 10) + 1)

DigitValue(c) == CHOOSE d \in 0..9 : SubSeq(DecimalDigits, d + 1, d + 1) = c

\* int(s) for a string of decimal digits
RECURSIVE StrToInt(_)
StrToInt(s) ==
    IF Len(s) = 1 THEN DigitValue(s)
    ELSE 10 * StrToInt(SubSeq(s, 1, Len(s) - 1)) + DigitValue(SubSeq(s, Len(s), Len(s)))

\* the binary digits of 0xffffffff
AllOnes32 == [i \in 1..32 |-> 1]

\* x >> k on the binary digits of x
ShiftRight(bits, k) == SubSeq(bits, 1, Len(bits) - k)

\* x << k on the binary digits of x
ShiftLeft(bits, k) == bits \o [i \in 1..k |-> 0]

RECURSIVE BitsToInt(_)
BitsToInt(bits) ==
    IF Len(bits) = 0 THEN 0
    ELSE 2 * BitsToInt(SubSeq(bits, 1, Len(bits) - 1)) + bits[Len(bits)]

\* x & 0xff, as an int
LowByte(bits) ==
    BitsToInt(IF Len(bits) > 8 THEN SubSeq(bits, Len(bits) - 7, Len(bits)) ELSE bits)

-----------------------------------------------------------------------------
(* NetplanConverter *)

\* The mutation of _cidr_to_netmask that shifts right only.
CidrToNetmaskNoShiftBack(prefix_len) ==
    LET mask == ShiftRight(AllOnes32, 32 - prefix_len)
    IN  Join(".", << IntToStr(LowByte(ShiftRight(mask, 24))),
                     IntToStr(LowByte(ShiftRight(mask, 16))),
                     IntToStr(LowByte(ShiftRight(mask, 8))),
                     IntToStr(LowByte(mask)) >>)

_cidr_to_netmask(prefix_len) ==
    LET mask == ShiftLeft(ShiftRight(AllOnes32, 32 - prefix_len), 32 - prefix_len)
    IN  Join(".", << IntToStr(LowByte(ShiftRight(mask, 24))),
                     IntToStr(LowByte(ShiftRight(mask, 16))),
                     IntToStr(LowByte(ShiftRight(mask, 8))),
                     IntToStr(LowByte(mask)) >>)

HexAlphabet == "0123456789abcdefABCDEF"

\* The mutation of IsPreHashedPsk that tests the length alone.
IsPreHashedPskLengthOnly(password) == Len(password) = 64

\* len(password) == 64 and all(c in '0123456789abcdefABCDEF' for c in password)
IsPreHashedPsk(password) ==
    /\ Len(password) = 64
    /\ \A i \in 1..Len(password) : InStr(SubSeq(password, i, i), HexAlphabet)

\* The psk lines of one access point.
PskLines(ap_config) ==
    IF "password" \in DOMAIN ap_config
    THEN IF IsPreHashedPsk(ap_config["password"])
         THEN << "    psk=" \o ap_config["password"] >>
         ELSE << "    psk=\"" \o ap_config["password"] \o "\"" >>
    ELSE << >>

\* The body of the loop over access_points.items(): one network block.
NetworkBlock(ssid, ap_config) ==
    << "network={", "    ssid=\"" \o ssid \o "\"" >>
    \o PskLines(ap_config)
    \o (IF Get(ap_config, "hidden", FALSE) THEN << "    scan_ssid=1" >> ELSE << >>)
    \o (IF "priority" \in DOMAIN ap_config
        THEN << "    priority=" \o IntToStr(ap_config["priority"]) >> ELSE << >>)
    \o (IF Get(ap_config, "mode", "infrastructure") = "adhoc"
        THEN << "    mode=1" >> ELSE << >>)
    \o (IF "auth" \in DOMAIN ap_config /\ ap_config["auth"] = "open"
        THEN << "    key_mgmt=NONE" >> ELSE << >>)
    \o << "}", "" >>

RECURSIVE NetworkBlocks(_)
NetworkBlocks(access_points) ==
    IF Len(access_points) = 0 THEN << >>
    ELSE NetworkBlock(access_points[1][1], access_points[1][2])
         \o NetworkBlocks(Tail(access_points))

_generate_wpa_supplicant_config(access_points) ==
    Join("\n", << "update_config=1", "" >> \o NetworkBlocks(access_points))


\* The loop over addresses of the static branch.
RECURSIVE AddressLines(_)
AddressLines(addresses) ==
    IF Len(addresses) = 0 THEN << >>
    ELSE LET addr == addresses[1]
         IN  (IF InStr("/", addr)
              THEN LET ip      == Split(addr, "/")[1]
                       prefix  == Split(addr, "/")[2]
                       netmask == _cidr_to_netmask(StrToInt(prefix))
                   IN  << "    address " \o ip, "    netmask " \o netmask >>
              ELSE << "    address " \o addr >>)
             \o AddressLines(Tail(addresses))

\* The nameservers lines of the static branch.
NameserverLines(iface_config) ==
    IF "nameservers" \in DOMAIN iface_config
       /\ "addresses" \in DOMAIN iface_config["nameservers"]
    THEN << "    dns-nameservers "
            \o Join(" ", iface_config["nameservers"]["addresses"]) >>
    ELSE << >>

\* The mutation of AddressingLines that tests addresses before dhcp4.
AddressingLinesStaticFirst(iface_name, iface_config) ==
    LET dhcp4     == Get(iface_config, "dhcp4", FALSE)
        addresses == Get(iface_config, "addresses", << >>)
    IN  IF Len(addresses) > 0
        THEN << "iface " \o iface_name \o " inet static" >>
             \o AddressLines(addresses)
             \o (IF "gateway4" \in DOMAIN iface_config
                 THEN << "    gateway " \o iface_config["gateway4"] >> ELSE << >>)
             \o NameserverLines(iface_config)
        ELSE IF dhcp4
        THEN << "iface " \o iface_name \o " inet dhcp" >>
        ELSE << "iface " \o iface_name \o " inet manual" >>

\* "Determine addressing method": the iface line and what its branch adds.
AddressingLines(iface_name, iface_config) ==
    LET dhcp4     == Get(iface_config, "dhcp4", FALSE)
        addresses == Get(iface_config, "addresses", << >>)
    IN  IF dhcp4
        THEN << "iface " \o iface_name \o " inet dhcp" >>
        ELSE IF Len(addresses) > 0
        THEN << "iface " \o iface_name \o " inet static" >>
             \o AddressLines(addresses)
             \o (IF "gateway4" \in DOMAIN iface_config
                 THEN << "    gateway " \o iface_config["gateway4"] >> ELSE << >>)
             \o NameserverLines(iface_config)
        ELSE << "iface " \o iface_name \o " inet manual" >>

\* wpa_conf_path of _add_interface_config
WpaConfPath(iface_name) == "/etc/wpa_supplicant/wpa_supplicant-" \o iface_name \o ".conf"

\* The mutation of WifiLines that omits the wpa-driver directive.
WifiLinesNoDriver(iface_name, iface_config, is_wifi) ==
    IF is_wifi /\ "access-points" \in DOMAIN iface_config
    THEN << "    wpa-conf " \o WpaConfPath(iface_name) >>
    ELSE << >>

\* "Handle WiFi-specific configuration": the directives added to the block.
WifiLines(iface_name, iface_config, is_wifi) ==
    IF is_wifi /\ "access-points" \in DOMAIN iface_config
    THEN << "    wpa-driver wext", "    wpa-conf " \o WpaConfPath(iface_name) >>
    ELSE << >>

\* "Add MTU if specified"
MtuLines(iface_config) ==
    IF "mtu" \in DOMAIN iface_config
    THEN << "    mtu " \o IntToStr(iface_config["mtu"]) >>
    ELSE << >>

\* The mutation of RouteLinesOf that tests only for the `to` key.
RECURSIVE RouteLinesOfToOnly(_)
RouteLinesOfToOnly(routes) ==
    IF Len(routes) = 0 THEN << >>
    ELSE LET route == routes[1]
         IN  (IF "to" \in DOMAIN route
              THEN << "    up route add -net " \o route["to"] \o " gw " \o Get(route, "via", ""),
                      "    down route del -net " \o route["to"] \o " gw " \o Get(route, "via", "") >>
              ELSE << >>)
             \o RouteLinesOfToOnly(Tail(routes))

\* The loop over iface_config['routes'].
RECURSIVE RouteLinesOf(_)
RouteLinesOf(routes) ==
    IF Len(routes) = 0 THEN << >>
    ELSE LET route == routes[1]
         IN  (IF "to" \in DOMAIN route /\ "via" \in DOMAIN route
              THEN << "    up route add -net " \o route["to"] \o " gw " \o route["via"],
                      "    down route del -net " \o route["to"] \o " gw " \o route["via"] >>
              ELSE << >>)
             \o RouteLinesOf(Tail(routes))

\* "Add routes if specified"
RouteLines(iface_config) ==
    IF "routes" \in DOMAIN iface_config
    THEN RouteLinesOf(iface_config["routes"])
    ELSE << >>

\* self after self._add_interface_config(iface_name, iface_config, is_wifi);
\* self is the record of the converter's two fields.
_add_interface_config(self, iface_name, iface_config, is_wifi) ==
    LET lines == << "auto " \o iface_name >>
                 \o AddressingLines(iface_name, iface_config)
                 \o WifiLines(iface_name, iface_config, is_wifi)
                 \o MtuLines(iface_config)
                 \o RouteLines(iface_config)
    IN  [ interfaces_content |-> self.interfaces_content \o lines \o << "" >>,
          wpa_configs |->
              IF is_wifi /\ "access-points" \in DOMAIN iface_config
              THEN DictSet(self.wpa_configs, iface_name,
                           _generate_wpa_supplicant_config(iface_config["access-points"]))
              ELSE self.wpa_configs ]

\* self after the loop over the items ifaces[i..] of an interface mapping,
\* shared by _process_ethernets (is_wifi false) and _process_wifis (true).
RECURSIVE ProcessItems(_, _, _, _)
ProcessItems(self, ifaces, i, is_wifi) ==
    IF i > Len(ifaces) THEN self
    ELSE IF ifaces[i][1] = "renderer"
         THEN ProcessItems(self, ifaces, i + 1, is_wifi)
         ELSE ProcessItems(
                  _add_interface_config(self, ifaces[i][1], ifaces[i][2], is_wifi),
                  ifaces, i + 1, is_wifi)

_process_ethernets(self, ethernets) == ProcessItems(self, ethernets, 1, FALSE)

_process_wifis(self, wifis) == ProcessItems(self, wifis, 1, TRUE)

\* The fields of a NetplanConverter after __init__.
NewConverter == [ interfaces_content |-> << >>, wpa_configs |-> << >> ]

\* version of convert(): read from the top level of the loaded document.
VersionOf(cfg) == Get(cfg, "version", 2)

\* network of convert()
NetworkOf(cfg) == Get(cfg, "network", cfg)

\* The mutation of LoopbackBlock that lacks the blank line.
LoopbackBlockNoBlank == << "auto lo", "iface lo inet loopback" >>

LoopbackBlock == << "auto lo", "iface lo inet loopback", "" >>

DefaultEth0Block == << "auto eth0", "iface eth0 inet dhcp", "" >>

\* The mutation of Eth0Configured that never sets the flag.
Eth0ConfiguredNeverSet(network) == FALSE

\* eth0_configured of convert()
Eth0Configured(network) ==
    IF "ethernets" \in DOMAIN network THEN HasKey(network["ethernets"], "eth0") ELSE FALSE

\* The mutation of ConvertBody that adds the default eth0 block after the
\* wifis instead of before them.
ConvertBodyDefaultLast(cfg) ==
    LET network == NetworkOf(cfg)
        s0 == [ NewConverter EXCEPT !.interfaces_content = LoopbackBlock ]
        s1 == IF "ethernets" \in DOMAIN network
              THEN _process_ethernets(s0, network["ethernets"]) ELSE s0
        s2 == IF "wifis" \in DOMAIN network
              THEN _process_wifis(s1, network["wifis"]) ELSE s1
    IN  IF ~Eth0Configured(network)
        THEN [ s2 EXCEPT !.interfaces_content = @ \o DefaultEth0Block ]
        ELSE s2

\* self after convert() on a document whose version check passed.
ConvertBody(cfg) ==
    LET network == NetworkOf(cfg)
        s0 == [ NewConverter EXCEPT !.interfaces_content = LoopbackBlock ]
        s1 == IF "ethernets" \in DOMAIN network
              THEN _process_ethernets(s0, network["ethernets"]) ELSE s0
        s2 == IF ~Eth0Configured(network)
              THEN [ s1 EXCEPT !.interfaces_content = @ \o DefaultEth0Block ]
              ELSE s1
    IN  IF "wifis" \in DOMAIN network
        THEN _process_wifis(s2, network["wifis"]) ELSE s2


-----------------------------------------------------------------------------
(* write_output_files and the file system *)

\* The files are visible to other processes while write_output_files runs, so
\* each of its file-system operations is a step of its own: the directories
\* and the interfaces file, then for each wireless document the open and
\* write, then the chmod.

\* Permission bits: u/g/o for owner, group, others; r/w for read, write.
Mode0666 == {"ur", "uw", "gr", "gw", "or", "ow"}

Mode0600 == {"ur", "uw"}

\* The file at path after open(path, 'w') and f.write(content): a new file
\* gets mode 0666 less the umask, an existing file keeps its mode.
OpenAndWrite(d, path, content) ==
    LET perm == IF path \in DOMAIN d THEN d[path].perm ELSE Mode0666 \ umask
    IN  [ q \in DOMAIN d \cup {path} |->
            IF q = path THEN [content |-> content, perm |-> perm] ELSE d[q] ]

\* os.chmod(path, mode)
Chmod(d, path, mode) == [ d EXCEPT ![path].perm = mode ]

\* interfaces_path of write_output_files
InterfacesPath ==
    IF args.output_dir # "" THEN args.output_dir \o "/interfaces"
    ELSE "/etc/network/interfaces"

\* wpa_dir of write_output_files
WpaDir ==
    IF args.output_dir # "" THEN args.output_dir \o "/wpa_supplicant"
    ELSE "/etc/wpa_supplicant"

\* wpa_path of write_output_files
WpaPath(iface_name) == WpaDir \o "/wpa_supplicant-" \o iface_name \o ".conf"

RECURSIVE DryRunWpaOutput(_)
DryRunWpaOutput(items) ==
    IF Len(items) = 0 THEN << >>
    ELSE << "Generated /etc/wpa_supplicant/wpa_supplicant-" \o items[1][1] \o ".conf:",
            items[1][2], "" >>
         \o DryRunWpaOutput(Tail(items))

-----------------------------------------------------------------------------
(* The inputs explored *)

MaxIfaces == 2   \* entries of one interface mapping, `renderer` included
MaxRoutes == 2   \* routes of one interface
MaxAPs == 2      \* access points of one wireless interface

EmptyDict == [ k \in {} |-> 0 ]

\* A key that is absent, or present with a value of S.
Opt(k, S) == { EmptyDict } \cup { (k :> v) : v \in S }

\* The sequences of at most n elements of S.
SeqsUpTo(S, n) == UNION { [1..k -> S] : k \in 0..n }

\* The mappings of at most n distinct keys of K, in every order, to values of
\* V; the key `renderer` holds the renderer's name, not an interface.
Mappings(K, V, n) ==
    { [ i \in 1..Len(ks) |->
          << ks[i], IF ks[i] = "renderer" THEN "networkd" ELSE vs[i] >> ] :
      ks \in { s \in SeqsUpTo(K, n) :
                 \A i, j \in 1..Len(s) : i # j => s[i] # s[j] },
      vs \in [1..n -> V] }

RECURSIVE Repeat(_, _)
Repeat(c, n) == IF n = 0 THEN "" ELSE c \o Repeat(c, n - 1)

\* Passwords on both sides of every test of the psk rule.
Passwords ==
    { HexAlphabet \o Repeat("7", 42),      \* 64 characters, hex of both cases
      Repeat("a", 64),
      Repeat("a", 63),
      Repeat("a", 65),
      Repeat("a", 63) \o "g",              \* 64 characters, one not hex
      "z" \o Repeat("0", 63),
      "plaintextpw",
      "" }

\* Access points that differ in the password alone.
PasswordAPs == Opt("password", Passwords)

\* Access points that differ in the other keys.
FlagAPs ==
    { a @@ b @@ c @@ d @@ e :
        a \in Opt("password", {"plaintextpw"}),
        b \in Opt("hidden", BOOLEAN),
        c \in Opt("priority", {5}),
        d \in Opt("mode", {"adhoc", "infrastructure"}),
        e \in Opt("auth", {"open", "psk"}) }

Ssid(i) == "net" \o IntToStr(i)

\* access-points mappings: the i-th access point has the i-th SSID.
AccessPointMaps ==
    { [ i \in 1..Len(s) |-> << Ssid(i), s[i] >> ] : s \in SeqsUpTo(PasswordAPs, MaxAPs) }
    \cup { << << "Home", ap >> >> : ap \in FlagAPs }

HomeAP == << << "Home", [ password |-> "plaintextpw" ] >> >>

Routes ==
    { [ to |-> "10.0.0.0/8", via |-> "192.168.1.1" ],
      [ to |-> "default", via |-> "192.168.1.254" ],
      [ to |-> "10.0.0.0/8" ],
      [ via |-> "192.168.1.1" ],
      EmptyDict }

\* Interface specs that differ in the addressing keys.
AddressingSpecs ==
    { a @@ b @@ c @@ d @@ e :
        a \in Opt("dhcp4", BOOLEAN),
        b \in Opt("addresses", { << >>, << "192.168.1.100/24" >>,
                                 << "10.0.0.5", "172.16.0.9/16" >> }),
        c \in Opt("gateway4", {"192.168.1.1"}),
        d \in Opt("nameservers", { EmptyDict,
                                   [ addresses |-> << "8.8.8.8", "1.1.1.1" >> ] }),
        e \in Opt("mtu", {1500}) }

\* Static interface specs with one address of every prefix length.
PrefixSpecs ==
    { [ addresses |-> << "10.1.2.3/" \o IntToStr(p) >> ] : p \in 0..32 }

\* Interface specs that differ in the routes.
RouteSpecs ==
    { a @@ ("routes" :> r) :
        a \in Opt("dhcp4", {TRUE}), r \in SeqsUpTo(Routes, MaxRoutes) }

\* Wireless interface specs that differ in the access points.
AccessPointSpecs ==
    { a @@ ("access-points" :> m) :
        a \in Opt("dhcp4", {TRUE}), m \in AccessPointMaps }

\* The few specs the interface mappings are filled with.
PlainEthSpecs ==
    { [ dhcp4 |-> TRUE ], [ addresses |-> << "192.168.1.100/24" >> ] }

PlainWifiSpecs ==
    { ("dhcp4" :> TRUE) @@ ("access-points" :> HomeAP),
      ("access-points" :> << >>),
      [ dhcp4 |-> TRUE ] }

EthernetMaps == Mappings({"eth0", "eth1", "renderer"}, PlainEthSpecs, MaxIfaces)

WifiMaps == Mappings({"wlan0", "wlan1", "renderer"}, PlainWifiSpecs, MaxIfaces)

\* The root structures: ethernets and wifis, each absent or present.
Networks ==
    \* the interface mappings in every shape
    { e @@ w : e \in Opt("ethernets", EthernetMaps), w \in Opt("wifis", WifiMaps) }
    \* one interface of every spec, as an ethernet and as a wireless interface
    \cup { ("ethernets" :> << << n, c >> >>) :
             n \in {"eth0", "eth1"},
             c \in AddressingSpecs \cup PrefixSpecs \cup RouteSpecs }
    \cup { ("wifis" :> << << "wlan0", c @@ a >> >>) :
             c \in AddressingSpecs \cup RouteSpecs,
             a \in Opt("access-points", {HomeAP}) }
    \cup { ("wifis" :> << << "wlan0", c >> >>) : c \in AccessPointSpecs }

\* A few root structures, for the documents that differ in form and version.
FewNetworks ==
    { [ ethernets |-> << << "eth0", [ dhcp4 |-> TRUE ] >> >>,
        wifis |-> << << "wlan0", ("dhcp4" :> TRUE) @@ ("access-points" :> HomeAP) >> >> ],
      [ ethernets |-> << << "eth1", [ addresses |-> << "192.168.1.100/24" >> ] >> >> ],
      [ wifis |-> << << "wlan0", ("access-points" :> HomeAP) >>,
                     << "wlan1", ("dhcp4" :> TRUE) @@ ("access-points" :> HomeAP) >> >> ],
      EmptyDict }

Versions == {1, 2, 3}

\* The loaded documents: the root structure under a `network` key or at the
\* top level, the version key absent or present, at the top level or inside
\* the `network` mapping.
Documents(networks, versions) ==
    { v @@ ("network" :> (w @@ n)) :
        v \in Opt("version", versions), w \in Opt("version", versions), n \in networks }
    \cup { v @@ n : v \in Opt("version", versions), n \in networks }

\* The loaded documents in the two usual forms: the root structure under a
\* `network` key beside `version: 2`, or at the top level without a version.
PlainDocuments(networks) ==
    { ("version" :> 2) @@ ("network" :> n) : n \in networks } \cup networks

\* The umasks: 022 and 077.
Umasks == { {"gw", "ow"}, {"gr", "gw", "or", "ow"} }

Args == [ input_exists : BOOLEAN, output_dir : {"", "out"}, dry_run : BOOLEAN ]

\* The runs: every root structure in the two usual forms written to a directory,
\* and a few documents of every form and version under every command line.
Inputs ==
    { [ config |-> c, args |-> a, euid |-> 0, umask |-> {"gw", "ow"} ] :
        c \in PlainDocuments(Networks),
        a \in { [ input_exists |-> TRUE, output_dir |-> "out", dry_run |-> FALSE ] } }
    \cup [ config : Documents(FewNetworks, Versions), args : Args,
           euid : {0, 1000}, umask : Umasks ]

Init ==
    /\ \E in \in Inputs :
         /\ config = in.config
         /\ args = in.args
         /\ euid = in.euid
         /\ umask = in.umask
    /\ pc = "start"
    /\ interfaces_content = << >>
    /\ wpa_configs = << >>
    /\ interfaces_text = ""
    /\ dirs = {"/etc", "/etc/network"}
    /\ disk = EmptyDict
    /\ stdout = << >>
    /\ widx = 0
    /\ exit_status = -1

-----------------------------------------------------------------------------
(* main *)

\* main: the input file does not exist.
InputNotFound ==
    /\ pc = "start"
    /\ ~args.input_exists
    /\ pc' = "exit"
    /\ exit_status' = 1
    /\ UNCHANGED <<args, euid, umask, config, interfaces_content, wpa_configs,
                   interfaces_text, dirs, disk, stdout, widx>>

\* main: writing to the system paths without root privileges.
RootRequired ==
    /\ pc = "start"
    /\ args.input_exists
    /\ ~args.dry_run /\ args.output_dir = "" /\ euid # 0
    /\ pc' = "exit"
    /\ exit_status' = 1
    /\ UNCHANGED <<args, euid, umask, config, interfaces_content, wpa_configs,
                   interfaces_text, dirs, disk, stdout, widx>>

ChecksPassed ==
    /\ args.input_exists
    /\ ~(~args.dry_run /\ args.output_dir = "" /\ euid # 0)

\* main: load_netplan_config, NetplanConverter(config) and convert(), which
\* raises ValueError; the except clause of main exits with status 1.
ConvertRaises ==
    /\ pc = "start"
    /\ ChecksPassed
    /\ VersionOf(config) # 2
    /\ stdout' = stdout \o << "Loading configuration from input...",
                              "Converting configuration..." >>
    /\ pc' = "exit"
    /\ exit_status' = 1
    /\ UNCHANGED <<args, euid, umask, config, interfaces_content, wpa_configs,
                   interfaces_text, dirs, disk, widx>>

\* main: load_netplan_config, NetplanConverter(config) and convert(), which
\* returns.
Convert ==
    /\ pc = "start"
    /\ ChecksPassed
    /\ VersionOf(config) = 2
    /\ LET self == ConvertBody(config)
       IN  /\ interfaces_content' = self.interfaces_content
           /\ wpa_configs' = self.wpa_configs
           /\ interfaces_text' = Join("\n", self.interfaces_content)
    /\ stdout' = stdout \o << "Loading configuration from input...",
                              "Converting configuration..." >>
    /\ pc' = "write"
    /\ UNCHANGED <<args, euid, umask, config, dirs, disk, widx, exit_status>>

\* write_output_files with dry_run: everything is printed, nothing written.
DryRun ==
    /\ pc = "write"
    /\ args.dry_run
    /\ stdout' = stdout
                 \o << "Generated /etc/network/interfaces:", interfaces_text, "" >>
                 \o DryRunWpaOutput(wpa_configs)
    /\ pc' = "exit"
    /\ exit_status' = 0
    /\ UNCHANGED <<args, euid, umask, config, interfaces_content, wpa_configs,
                   interfaces_text, dirs, disk, widx>>

\* write_output_files without dry_run: the directories are made and the
\* interfaces file is opened and written.
WriteInterfaces ==
    /\ pc = "write"
    /\ ~args.dry_run
    /\ dirs' = dirs \cup (IF args.output_dir # "" THEN {args.output_dir, WpaDir}
                          ELSE {WpaDir})
    /\ disk' = OpenAndWrite(disk, InterfacesPath, interfaces_text)
    /\ stdout' = Append(stdout, "Writing " \o InterfacesPath \o "...")
    /\ widx' = 1
    /\ pc' = "wpa_write"
    /\ UNCHANGED <<args, euid, umask, config, interfaces_content, wpa_configs,
                   interfaces_text, exit_status>>

\* write_output_files: the next wpa_supplicant file is opened and written.
WriteWpa ==
    /\ pc = "wpa_write"
    /\ widx <= Len(wpa_configs)
    /\ disk' = OpenAndWrite(disk, WpaPath(wpa_configs[widx][1]), wpa_configs[widx][2])
    /\ stdout' = Append(stdout, "Writing " \o WpaPath(wpa_configs[widx][1]) \o "...")
    /\ pc' = "wpa_chmod"
    /\ UNCHANGED <<args, euid, umask, config, interfaces_content, wpa_configs,
                   interfaces_text, dirs, widx, exit_status>>

\* write_output_files: os.chmod(wpa_path, 0o600) on the file just written.
ChmodWpa ==
    /\ pc = "wpa_chmod"
    /\ disk' = Chmod(disk, WpaPath(wpa_configs[widx][1]), Mode0600)
    /\ widx' = widx + 1
    /\ pc' = "wpa_write"
    /\ UNCHANGED <<args, euid, umask, config, interfaces_content, wpa_configs,
                   interfaces_text, dirs, stdout, exit_status>>

\* write_output_files: the loop over wpa_configs is over; main returns.
WriteDone ==
    /\ pc = "wpa_write"
    /\ widx > Len(wpa_configs)
    /\ stdout' = Append(stdout, "Configuration files written successfully!")
    /\ pc' = "exit"
    /\ exit_status' = 0
    /\ UNCHANGED <<args, euid, umask, config, interfaces_content, wpa_configs,
                   interfaces_text, dirs, disk, widx>>

Next ==
    \/ InputNotFound
    \/ RootRequired
    \/ ConvertRaises
    \/ Convert
    \/ DryRun
    \/ WriteInterfaces
    \/ WriteWpa
    \/ ChmodWpa
    \/ WriteDone


Spec == Init /\ [][Next]_vars


-----------------------------------------------------------------------------
(* Reading the output back *)

\* convert() has returned in this run.
Converted == pc \in {"write", "wpa_write", "wpa_chmod"} \/ (pc = "exit" /\ exit_status = 0)

\* The value of key k, for a dict kept as a sequence of <<key, value>> pairs
Lookup(m, k) == m[CHOOSE i \in 1..Len(m) : m[i][1] = k][2]

StartsWith(s, prefix) == Len(s) >= Len(prefix) /\ SubSeq(s, 1, Len(prefix)) = prefix

\* The blocks of a sequence of lines: the runs of lines that a blank line ends.
RECURSIVE BlocksFrom(_, _, _)
BlocksFrom(lines, i, cur) ==
    IF i > Len(lines) THEN (IF cur = << >> THEN << >> ELSE << cur >>)
    ELSE IF lines[i] = ""
         THEN << cur >> \o BlocksFrom(lines, i + 1, << >>)
         ELSE BlocksFrom(lines, i + 1, Append(cur, lines[i]))

BlocksOf(lines) == BlocksFrom(lines, 1, << >>)

\* The interface blocks of the output that start with `auto <name>`.
BlocksNamed(name) ==
    SelectSeq(BlocksOf(interfaces_content), LAMBDA b : b # << >> /\ b[1] = "auto " \o name)

\* How many lines of a block satisfy a test.
Count(block, Test(_)) == Len(SelectSeq(block, Test))

\* The entries of an interface mapping of the loaded document that are
\* interfaces, in order.
IfaceEntries(key) ==
    SelectSeq(Get(NetworkOf(config), key, << >>), LAMBDA e : e[1] # "renderer")

\* All of them, as a set of <<name, spec>> pairs.
AllIfaceEntries ==
    { IfaceEntries("ethernets")[i] : i \in 1..Len(IfaceEntries("ethernets")) }
    \cup { IfaceEntries("wifis")[i] : i \in 1..Len(IfaceEntries("wifis")) }

\* The wifis entries that have access-points.
WifiEntriesWithAPs ==
    { e \in { IfaceEntries("wifis")[i] : i \in 1..Len(IfaceEntries("wifis")) } :
        "access-points" \in DOMAIN e[2] }

Dhcp4Set(spec) == "dhcp4" \in DOMAIN spec /\ spec["dhcp4"] = TRUE

HasAddresses(spec) == "addresses" \in DOMAIN spec /\ spec["addresses"] # << >>

\* The addressing mode the precedence rule gives a spec.
ExpectedMode(spec) ==
    IF Dhcp4Set(spec) THEN "dhcp"
    ELSE IF HasAddresses(spec) THEN "static"
    ELSE "manual"

-----------------------------------------------------------------------------
(* Claims *)

\* C1: for every config convert() accepts (version absent or 2), whatever
\* ethernets and wifis hold, the produced line sequence begins with `auto lo`,
\* `iface lo inet loopback` and an empty line, and nothing precedes them.
C1_LoopbackFirst ==
    (pc # "start" /\ ChecksPassed
        /\ ("version" \notin DOMAIN config \/ config["version"] = 2))
    => /\ Len(interfaces_content) >= 3
       /\ interfaces_content[1] = "auto lo"
       /\ interfaces_content[2] = "iface lo inet loopback"
       /\ interfaces_content[3] = ""
       /\ StartsWith(interfaces_text, "auto lo\niface lo inet loopback\n\n")

C1_Witness ==
    /\ Converted
    /\ IfaceEntries("ethernets") # << >>
    /\ IfaceEntries("wifis") # << >>
    /\ "version" \notin DOMAIN config
    /\ interfaces_content[1] = "auto lo"

\* C2: when ethernets is absent or has no eth0 key, the output contains the
\* default block `auto eth0` / `iface eth0 inet dhcp` / blank line; when
\* ethernets has an eth0 key, the eth0 block is the one built from that entry
\* and no default block is added, so there is exactly one eth0 block.
C2_DefaultEth0 ==
    Converted =>
      LET network == NetworkOf(config)
          explicit == "ethernets" \in DOMAIN network
                      /\ \E i \in 1..Len(network["ethernets"]) :
                           network["ethernets"][i][1] = "eth0"
          n == Len(interfaces_content)
      IN  /\ Len(BlocksNamed("eth0")) = 1
          /\ ~explicit =>
               \E i \in 1..(n - 2) :
                  /\ interfaces_content[i] = "auto eth0"
                  /\ interfaces_content[i + 1] = "iface eth0 inet dhcp"
                  /\ interfaces_content[i + 2] = ""
          /\ explicit =>
               LET spec == Lookup(network["ethernets"], "eth0")
               IN  BlocksNamed("eth0")[1][2] = "iface eth0 inet " \o ExpectedMode(spec)

C2_Witness ==
    /\ Converted
    /\ \E e \in AllIfaceEntries : e[1] = "eth0" /\ ExpectedMode(e[2]) = "static"
    /\ Len(BlocksNamed("eth0")) = 1
    /\ Len(BlocksNamed("eth1")) = 1

\* The versions a document declares: at its top level and, when the root
\* structure is under a `network` key, inside it.
DeclaredVersions(cfg) ==
    (IF "version" \in DOMAIN cfg THEN {cfg["version"]} ELSE {})
    \cup (IF "network" \in DOMAIN cfg /\ "version" \in DOMAIN cfg["network"]
          THEN {cfg["network"]["version"]} ELSE {})

\* C3: a config whose schema version is present and not 2 is rejected before
\* any output is produced, with the root structure under a `network` key or
\* at the top level: no interface line is appended, no wireless document is
\* registered and no file is written.
C3_RejectedBeforeOutput ==
    (pc # "start" /\ ChecksPassed /\ \E v \in DeclaredVersions(config) : v # 2)
    => /\ pc = "exit"
       /\ exit_status = 1
       /\ interfaces_content = << >>
       /\ wpa_configs = << >>
       /\ disk = EmptyDict

\* C4: every interface block holds exactly one `iface <name> inet <mode>`
\* line, its mode chosen by strict precedence (dhcp4, else addresses, else
\* manual); with dhcp4 true and static addresses the block holds the DHCP line
\* and no `inet static`, `address` or `netmask` line.
C4_AddressingPrecedence ==
    Converted =>
      \A e \in AllIfaceEntries :
         /\ Len(BlocksNamed(e[1])) = 1
         /\ LET b == BlocksNamed(e[1])[1]
            IN  /\ Count(b, LAMBDA l : StartsWith(l, "iface ")) = 1
                /\ Count(b, LAMBDA l :
                            l = "iface " \o e[1] \o " inet " \o ExpectedMode(e[2])) = 1
                /\ Dhcp4Set(e[2]) =>
                     Count(b, LAMBDA l : \/ StartsWith(l, "    address ")
                                         \/ StartsWith(l, "    netmask ")
                                         \/ l = "iface " \o e[1] \o " inet static") = 0

C4_Witness ==
    /\ Converted
    /\ \E e \in AllIfaceEntries :
         /\ Dhcp4Set(e[2]) /\ HasAddresses(e[2])
         /\ BlocksNamed(e[1])[1][2] = "iface " \o e[1] \o " inet dhcp"

\* C5: for every interface spec that has nameservers.addresses, the block
\* holds an indented `dns-nameservers` line listing them joined by single
\* spaces, whichever addressing mode was chosen.
C5_NameserversAnyMode ==
    Converted =>
      \A e \in AllIfaceEntries :
         ("nameservers" \in DOMAIN e[2] /\ "addresses" \in DOMAIN e[2]["nameservers"])
         => \E b \in { BlocksNamed(e[1])[i] : i \in 1..Len(BlocksNamed(e[1])) } :
               Count(b, LAMBDA l :
                        l = "    dns-nameservers "
                            \o Join(" ", e[2]["nameservers"]["addresses"])) = 1


\* C6: after convert(), for every wifis entry other than `renderer` whose
\* spec has access-points, the block of that name holds exactly one
\* `wpa-driver wext` line and exactly one `wpa-conf` line naming
\* /etc/wpa_supplicant/wpa_supplicant-<name>.conf, and the wireless documents
\* hold exactly one document keyed by that name.
C6_WirelessDirectives ==
    Converted =>
      \A e \in WifiEntriesWithAPs :
         /\ Len(BlocksNamed(e[1])) = 1
         /\ LET b == BlocksNamed(e[1])[1]
            IN  /\ Count(b, LAMBDA l : l = "    wpa-driver wext") = 1
                /\ Count(b, LAMBDA l : StartsWith(l, "    wpa-conf ")) = 1
                /\ Count(b, LAMBDA l :
                            l = "    wpa-conf /etc/wpa_supplicant/wpa_supplicant-"
                                \o e[1] \o ".conf") = 1
         /\ Cardinality({ i \in 1..Len(wpa_configs) : wpa_configs[i][1] = e[1] }) = 1

C6_Witness ==
    /\ Converted
    /\ Cardinality(WifiEntriesWithAPs) = 2
    /\ Len(wpa_configs) = 2
    /\ \E i \in 1..Len(interfaces_content) :
          interfaces_content[i] = "    wpa-conf /etc/wpa_supplicant/wpa_supplicant-wlan1.conf"

\* C7: when write_output_files writes to disk, the interfaces file is left
\* with default permissions, and in every state in which a wireless-credential
\* file exists on disk with content its permissions are 0600.
C7_WirelessFilesNeverDefault ==
    /\ InterfacesPath \in DOMAIN disk => disk[InterfacesPath].perm = Mode0666 \ umask
    /\ \A path \in DOMAIN disk \ {InterfacesPath} :
          disk[path].content # "" => disk[path].perm = {"ur", "uw"}

\* The value of the i-th bit (1 is the most significant of 32) of a dotted
\* decimal mask.
MaskBit(mask, i) ==
    LET octet == StrToInt(Split(mask, ".")[((i - 1) \div 8) + 1])
    IN  (octet \div (2 ^ (7 - ((i - 1) % 8)))) % 2

\* A string is the dotted-decimal form of the mask of prefix length p.
IsMaskOfPrefix(mask, p) ==
    /\ Len(Split(mask, ".")) = 4
    /\ \A k \in 1..4 : LET o == Split(mask, ".")[k]
                       IN  /\ Len(o) \in 1..3
                           /\ \A j \in 1..Len(o) : InStr(SubSeq(o, j, j), DecimalDigits)
                           /\ StrToInt(o) \in 0..255
                           /\ (Len(o) > 1 => SubSeq(o, 1, 1) # "0")
    /\ \A i \in 1..32 : MaskBit(mask, i) = (IF i <= p THEN 1 ELSE 0)

\* The prefix lengths of the addresses of a spec that have one, in order.
PrefixesOf(spec) ==
    LET with == SelectSeq(spec["addresses"], LAMBDA a : InStr("/", a))
    IN  [ j \in 1..Len(with) |-> StrToInt(Split(with[j], "/")[2]) ]

\* The masks of the netmask lines of a block, in order.
MasksOf(block) ==
    LET ls == SelectSeq(block, LAMBDA l : StartsWith(l, "    netmask "))
    IN  [ j \in 1..Len(ls) |-> SubSeq(ls[j], Len("    netmask ") + 1, Len(ls[j])) ]

\* C8: _cidr_to_netmask maps every prefix length p in 0..32 to the dotted
\* decimal form of the 32-bit mask whose p most significant bits are 1 and
\* whose other bits are 0, octets most significant first; 24 gives
\* 255.255.255.0, 16 gives 255.255.0.0, 32 gives 255.255.255.255 and 0 gives
\* 0.0.0.0.  Read off the netmask lines convert() emits for static addresses.
C8_CidrToNetmask ==
    Converted =>
      \A e \in { x \in AllIfaceEntries : ExpectedMode(x[2]) = "static" } :
         LET masks == MasksOf(BlocksNamed(e[1])[1])
             prefixes == PrefixesOf(e[2])
         IN  /\ Len(masks) = Len(prefixes)
             /\ \A j \in 1..Len(prefixes) :
                   /\ prefixes[j] \in 0..32
                   /\ IsMaskOfPrefix(masks[j], prefixes[j])
                   /\ prefixes[j] = 24 => masks[j] = "255.255.255.0"
                   /\ prefixes[j] = 16 => masks[j] = "255.255.0.0"
                   /\ prefixes[j] = 32 => masks[j] = "255.255.255.255"
                   /\ prefixes[j] = 0 => masks[j] = "0.0.0.0"

C8_Witness ==
    /\ Converted
    /\ \E e \in AllIfaceEntries :
          /\ ExpectedMode(e[2]) = "static"
          /\ PrefixesOf(e[2]) = << 19 >>
          /\ MasksOf(BlocksNamed(e[1])[1]) = << "255.255.224.0" >>

HexDigitChars ==
    { "0", "1", "2", "3", "4", "5", "6", "7", "8", "9",
      "a", "b", "c", "d", "e", "f", "A", "B", "C", "D", "E", "F" }

\* The password is exactly 64 characters, each a hexadecimal digit.
Is64Hex(password) ==
    /\ Len(password) = 64
    /\ \A i \in 1..64 : SubSeq(password, i, i) \in HexDigitChars

\* The network blocks of a wireless document: its blocks after the preamble.
NetworkBlocksOf(doc) == Tail(BlocksOf(Split(doc, "\n")))

\* C9: in the wireless document an access point with a password gets exactly
\* one psk line: unquoted `psk=<value>` if and only if the password is exactly
\* 64 characters, all hexadecimal digits of either case, and quoted
\* `psk="<value>"` for any other password; an access point without a password
\* gets no psk line.
C9_PskQuoting ==
    Converted =>
      \A e \in WifiEntriesWithAPs :
         LET aps == e[2]["access-points"]
             blocks == NetworkBlocksOf(Lookup(wpa_configs, e[1]))
         IN  /\ Len(blocks) = Len(aps)
             /\ \A i \in 1..Len(aps) :
                   LET ap == aps[i][2]
                       psk == SelectSeq(blocks[i], LAMBDA l : StartsWith(l, "    psk="))
                   IN  IF "password" \in DOMAIN ap
                       THEN /\ Len(psk) = 1
                            /\ (psk[1] = "    psk=" \o ap["password"])
                                  <=> Is64Hex(ap["password"])
                            /\ (psk[1] = "    psk=\"" \o ap["password"] \o "\"")
                                  <=> ~Is64Hex(ap["password"])
                       ELSE Len(psk) = 0

C9_Witness ==
    /\ Converted
    /\ \E e \in WifiEntriesWithAPs :
          LET aps == e[2]["access-points"]
              blocks == NetworkBlocksOf(Lookup(wpa_configs, e[1]))
          IN  /\ Len(aps) = 2
              /\ aps[1][2] = [ password |-> "0123456789abcdefABCDEF" \o Repeat("7", 42) ]
              /\ aps[2][2] = [ password |-> Repeat("a", 63) \o "g" ]
              /\ blocks[1][3] = "    psk=" \o aps[1][2]["password"]
              /\ blocks[2][3] = "    psk=\"" \o aps[2][2]["password"] \o "\""

IsCompleteRoute(route) == "to" \in DOMAIN route /\ "via" \in DOMAIN route

IsRouteLine(l) == StartsWith(l, "    up ") \/ StartsWith(l, "    down ")

\* C10: each route that has both `to` and `via` contributes an
\* `up route add -net <to> gw <via>` line immediately followed by the matching
\* `down route del -net <to> gw <via>` line, in the order of the routes list;
\* a route missing `to` or `via` contributes no line and does not disturb the
\* lines of the others.
C10_RouteLines ==
    Converted =>
      \A e \in { x \in AllIfaceEntries : "routes" \in DOMAIN x[2] } :
         LET b == BlocksNamed(e[1])[1]
             complete == SelectSeq(e[2]["routes"], IsCompleteRoute)
             m == Len(complete)
             first == Len(b) - 2 * m
         IN  /\ Count(b, IsRouteLine) = 2 * m
             /\ first >= 2
             /\ \A j \in 1..m :
                   /\ b[first + 2 * j - 1] =
                        "    up route add -net " \o complete[j]["to"]
                        \o " gw " \o complete[j]["via"]
                   /\ b[first + 2 * j] =
                        "    down route del -net " \o complete[j]["to"]
                        \o " gw " \o complete[j]["via"]

C10_Witness ==
    /\ Converted
    /\ \E e \in AllIfaceEntries :
          /\ "routes" \in DOMAIN e[2]
          /\ e[2]["routes"] = << [ to |-> "10.0.0.0/8" ],
                                 [ to |-> "default", via |-> "192.168.1.254" ] >>
          /\ Count(BlocksNamed(e[1])[1], IsRouteLine) = 2


\* The `auto <name>` lines the entries of an interface mapping call for, in
\* the order of the mapping.
AutoLinesOf(key) ==
    [ i \in 1..Len(IfaceEntries(key)) |-> "auto " \o IfaceEntries(key)[i][1] ]

\* The document has an explicit eth0 entry among its ethernets.
HasExplicitEth0 ==
    \E i \in 1..Len(IfaceEntries("ethernets")) : IfaceEntries("ethernets")[i][1] = "eth0"

\* The first lines of the blocks the loaded document calls for, in order:
\* loopback, the ethernets, the default eth0 if there is no explicit one, the
\* wifis.
ExpectedBlockHeads ==
    << "auto lo" >>
    \o AutoLinesOf("ethernets")
    \o (IF HasExplicitEth0 THEN << >> ELSE << "auto eth0" >>)
    \o AutoLinesOf("wifis")

\* C11: after convert(), every entry of ethernets and wifis other than
\* `renderer` has produced exactly one block, starting with `auto <name>` and
\* followed by exactly one blank line; the blocks are in the order of their
\* mapping, every ethernet block (and the default eth0 block, if added) comes
\* before every wireless block, and a `renderer` key produces no block.
C11_OneBlockPerEntryInOrder ==
    Converted =>
      LET blocks == BlocksOf(interfaces_content)
          n == Len(interfaces_content)
      IN  \* the blocks are those called for, one each, in order
          /\ Len(blocks) = Len(ExpectedBlockHeads)
          /\ \A k \in 1..Len(blocks) :
                /\ blocks[k] # << >>
                /\ blocks[k][1] = ExpectedBlockHeads[k]
                /\ Count(blocks[k], LAMBDA l : StartsWith(l, "auto ")) = 1
          \* one blank line after each block and no other
          /\ n > 0 /\ interfaces_content[n] = ""
          /\ Count(interfaces_content, LAMBDA l : l = "") = Len(blocks)
          /\ \A i \in 1..(n - 1) :
                ~(interfaces_content[i] = "" /\ interfaces_content[i + 1] = "")
          \* renderer is no interface
          /\ Count(interfaces_content, LAMBDA l : l = "auto renderer") = 0
          \* every ethernet block and the default eth0 precede every wireless block
          /\ \A e \in 1..Len(IfaceEntries("ethernets")), w \in 1..Len(IfaceEntries("wifis")),
                i, j \in 1..n :
                (/\ interfaces_content[i] = "auto " \o IfaceEntries("ethernets")[e][1]
                 /\ interfaces_content[j] = "auto " \o IfaceEntries("wifis")[w][1])
                => i < j
          /\ \A w \in 1..Len(IfaceEntries("wifis")), i, j \in 1..n :
                (/\ interfaces_content[i] = "auto eth0"
                 /\ interfaces_content[j] = "auto " \o IfaceEntries("wifis")[w][1])
                => i < j

C11_Witness ==
    /\ Converted
    /\ HasKey(Get(NetworkOf(config), "ethernets", << >>), "renderer")
    /\ HasKey(Get(NetworkOf(config), "wifis", << >>), "renderer")
    /\ ~HasExplicitEth0
    /\ Len(IfaceEntries("wifis")) = 1
    /\ [ k \in 1..Len(BlocksOf(interfaces_content)) |-> BlocksOf(interfaces_content)[k][1] ]
         = << "auto lo", "auto eth1", "auto eth0", "auto wlan1" >>

=============================================================================
